---- MODULE Spec2Model ----
(***************************************************************************)
(* MaxAim: a GLFW window bootstrap (src/main.cpp) and the shader/geometry  *)
(* setup and draw routines of the triangle example (src/triangle.cpp).     *)
(*                                                                         *)
(* Spec          main() of src/main.cpp, one action per API call, with     *)
(*               the user's close request as the only environment action.  *)
(* FairSpec      Spec with weak fairness on main's own steps (every call   *)
(*               main makes returns).                                      *)
(* TriangleSpec  renderTriangleSetup() and renderTriangle() of             *)
(*               src/triangle.cpp, one action per GL call, called by an    *)
(*               arbitrary caller on a thread that owns a current context. *)
(*               main.cpp never calls either function, so they have no     *)
(*               action in Spec.                                           *)
(***************************************************************************)
EXTENDS Integers, Sequences, FiniteSets

\* ---------------------------------------------------------------- bounds
\* Loop iterations main may start before the model stops following it.
MaxFrames == 6
\* Calls of renderTriangleSetup / renderTriangle the arbitrary caller makes.
MaxSetups == 1
MaxRenders == 2
\* By how many characters the longest driver log fails to fit infoLog.
MaxLogExcess == 1

\* ------------------------------------------------------ program constants
\* char infoLog[512] and the bufSize argument of glGet*InfoLog.
InfoLogSize == 512
\* sizeof(float)
SizeofFloat == 4
\* sizeof(vertices): 9 floats.
VerticesBytes == 9 * SizeofFloat
\* The count argument of glDrawArrays(GL_TRIANGLES, 0, 3).
DrawCount == 3
\* GLFWwindow* of the one window (NULL is 0).
NULL == 0
WindowHandle == 1

VARIABLES
    \* ---- src/main.cpp
    pc,              \* the call main() is about to make, or "exited"
    glfwInitialized, \* the GLFW library is initialised (and not terminated)
    window,          \* GLFWwindow* window
    contextCurrent,  \* an OpenGL context is current on the thread
    closeQueued,     \* a close request sits in the OS event queue
    closeFlag,       \* the window's should-close flag
    visibleAt,       \* number of the pollEvents call that raised closeFlag (0: none)
    presents,        \* glfwSwapBuffers calls so far
    polls,           \* glfwPollEvents calls so far
    terminateCalls,  \* glfwTerminate calls so far
    frame,           \* API calls of the current loop iteration, in order
    failed,          \* the setup call that failed ("none": none)
    leftLoop,        \* glfwWindowShouldClose returned true
    retval,          \* <<main's return value>>, empty while main runs
    \* ---- src/triangle.cpp
    tpc,             \* the GL call the running function is about to make ("idle": none runs)
    shaderProgram,   \* unsigned int shaderProgram
    VAO,             \* unsigned int VAO
    loc,             \* renderTriangleSetup's locals VBO, vertexShader, fragmentShader, success
    profile,         \* "core" or "compat": the profile of the current context
    bufs,            \* buffer objects: name i |-> size of its data store
    arrayBuffer,     \* GL_ARRAY_BUFFER binding
    objs,            \* shader and program objects: name i |-> record
    currentProgram,  \* the program in use
    vaos,            \* vertex array objects: name i |-> state of attribute 0
    defaultVao,      \* attribute 0 of vertex array 0 (compatibility profile)
    vaoBinding,      \* the bound vertex array
    glError,         \* a GL error has been recorded
    glCalls,         \* GL calls of the running (or last) function call, in order
    out,             \* std::cout
    err,             \* std::cerr
    draws,           \* glDrawArrays calls so far
    setups,          \* renderTriangleSetup calls started
    setupsDone       \* renderTriangleSetup calls returned

mainVars == <<pc, glfwInitialized, window, contextCurrent, closeQueued, closeFlag,
              visibleAt, presents, polls, terminateCalls, frame, failed, leftLoop, retval>>
glVars == <<tpc, shaderProgram, VAO, loc, profile, bufs, arrayBuffer, objs,
            currentProgram, vaos, defaultVao, vaoBinding, glError, glCalls, out, err,
            draws, setups, setupsDone>>
vars == <<mainVars, glVars>>

\* =========================================================== src/main.cpp

\* The exit status the parent sees: the low 8 bits of main's return value.
ExitStatus(r) == r % 256

\* glfwTerminate(): destroys the window and the context, leaves the library
\* uninitialised.
glfwTerminate ==
    /\ terminateCalls' = terminateCalls + 1
    /\ glfwInitialized' = FALSE
    /\ window' = NULL
    /\ contextCurrent' = FALSE

\* `return r;` from main.
Return(r) ==
    /\ retval' = <<r>>
    /\ pc' = "exited"

\* if (!glfwInit()) return -1;                                   main.cpp:7-8
glfwInit ==
    /\ pc = "glfwInit"
    /\ \E ok \in BOOLEAN :
          IF ok
          THEN /\ glfwInitialized' = TRUE
               /\ pc' = "glfwCreateWindow"
               /\ UNCHANGED <<failed, retval>>
          ELSE /\ failed' = "glfwInit"
               /\ Return(-1)
               /\ UNCHANGED glfwInitialized
    /\ UNCHANGED <<window, contextCurrent, closeQueued, closeFlag, visibleAt, presents,
                   polls, terminateCalls, frame, leftLoop>>
    /\ UNCHANGED glVars

\* window = glfwCreateWindow(800, 600, ...);
\* if (!window) { glfwTerminate(); return -1; }                main.cpp:11-16
glfwCreateWindow ==
    /\ pc = "glfwCreateWindow"
    /\ \E w \in {NULL, WindowHandle} :
          IF w # NULL
          THEN /\ window' = w
               /\ pc' = "glfwMakeContextCurrent"
               /\ UNCHANGED <<failed, retval, terminateCalls, glfwInitialized,
                              contextCurrent>>
          ELSE /\ failed' = "glfwCreateWindow"
               /\ glfwTerminate
               /\ Return(-1)
    /\ UNCHANGED <<closeQueued, closeFlag, visibleAt, presents, polls, frame, leftLoop>>
    /\ UNCHANGED glVars

\* glfwMakeContextCurrent(window); its outcome is not looked at.  main.cpp:17
glfwMakeContextCurrent ==
    /\ pc = "glfwMakeContextCurrent"
    /\ \E ok \in BOOLEAN : contextCurrent' = ok
    /\ pc' = "glewInit"
    /\ UNCHANGED <<glfwInitialized, window, closeQueued, closeFlag, visibleAt, presents,
                   polls, terminateCalls, frame, failed, leftLoop, retval>>
    /\ UNCHANGED glVars

\* glewInit with a fault injected: the failure is not checked and main runs on.
glewInitUnchecked ==
    /\ pc = "glewInit"
    /\ \E ok \in (IF contextCurrent THEN BOOLEAN ELSE {FALSE}) :
          /\ failed' = IF ok THEN failed ELSE "glewInit"
          /\ pc' = "glfwWindowShouldClose"
          /\ UNCHANGED <<retval, terminateCalls, glfwInitialized, window, contextCurrent>>
    /\ UNCHANGED <<closeQueued, closeFlag, visibleAt, presents, polls, frame, leftLoop>>
    /\ UNCHANGED glVars

\* glewInit with a fault injected: the failure path returns without
\* glfwTerminate().
glewInitNoTerminate ==
    /\ pc = "glewInit"
    /\ \E ok \in (IF contextCurrent THEN BOOLEAN ELSE {FALSE}) :
          IF ok
          THEN /\ pc' = "glfwWindowShouldClose"
               /\ UNCHANGED <<failed, retval>>
          ELSE /\ failed' = "glewInit"
               /\ Return(-1)
    /\ UNCHANGED <<terminateCalls, glfwInitialized, window, contextCurrent>>
    /\ UNCHANGED <<closeQueued, closeFlag, visibleAt, presents, polls, frame, leftLoop>>
    /\ UNCHANGED glVars

\* if (glewInit() != GLEW_OK) { glfwTerminate(); return -1; }  main.cpp:20-24
\* GLEW needs a current context to load the entry points from.
glewInit ==
    /\ pc = "glewInit"
    /\ \E ok \in (IF contextCurrent THEN BOOLEAN ELSE {FALSE}) :
          IF ok
          THEN /\ pc' = "glfwWindowShouldClose"
               /\ UNCHANGED <<failed, retval, terminateCalls, glfwInitialized, window,
                              contextCurrent>>
          ELSE /\ failed' = "glewInit"
               /\ glfwTerminate
               /\ Return(-1)
    /\ UNCHANGED <<closeQueued, closeFlag, visibleAt, presents, polls, frame, leftLoop>>
    /\ UNCHANGED glVars

\* while (!glfwWindowShouldClose(window))                         main.cpp:27
glfwWindowShouldClose ==
    /\ pc = "glfwWindowShouldClose"
    /\ IF closeFlag
       THEN /\ leftLoop' = TRUE
            /\ pc' = "glfwTerminate"
            /\ UNCHANGED frame
       ELSE /\ presents < MaxFrames
            /\ pc' = "glfwSwapBuffers"
            /\ frame' = <<>>
            /\ UNCHANGED leftLoop
    /\ UNCHANGED <<glfwInitialized, window, contextCurrent, closeQueued, closeFlag,
                   visibleAt, presents, polls, terminateCalls, failed, retval>>
    /\ UNCHANGED glVars

\* glfwSwapBuffers(window);                                       main.cpp:29
glfwSwapBuffers ==
    /\ pc = "glfwSwapBuffers"
    /\ presents' = presents + 1
    /\ frame' = Append(frame, "glfwSwapBuffers")
    /\ pc' = "glfwPollEvents"
    /\ UNCHANGED <<glfwInitialized, window, contextCurrent, closeQueued, closeFlag,
                   visibleAt, polls, terminateCalls, failed, leftLoop, retval>>
    /\ UNCHANGED glVars

\* glfwPollEvents with a fault injected: the queued close request is consumed
\* without raising the flag.
glfwPollEventsLosesClose ==
    /\ pc = "glfwPollEvents"
    /\ polls' = polls + 1
    /\ frame' = Append(frame, "glfwPollEvents")
    /\ closeQueued' = FALSE
    /\ pc' = "glfwWindowShouldClose"
    /\ UNCHANGED <<closeFlag, visibleAt>>
    /\ UNCHANGED <<glfwInitialized, window, contextCurrent, presents, terminateCalls,
                   failed, leftLoop, retval>>
    /\ UNCHANGED glVars

\* glfwPollEvents(): delivers the queued events; a close request raises the
\* window's should-close flag.                                    main.cpp:30
glfwPollEvents ==
    /\ pc = "glfwPollEvents"
    /\ polls' = polls + 1
    /\ frame' = Append(frame, "glfwPollEvents")
    /\ closeFlag' = (closeFlag \/ closeQueued)
    /\ visibleAt' = IF closeQueued /\ ~closeFlag THEN polls + 1 ELSE visibleAt
    /\ closeQueued' = FALSE
    /\ pc' = "glfwWindowShouldClose"
    /\ UNCHANGED <<glfwInitialized, window, contextCurrent, presents, terminateCalls,
                   failed, leftLoop, retval>>
    /\ UNCHANGED glVars

\* glfwTerminate(); return 0;                                  main.cpp:34-35
Cleanup ==
    /\ pc = "glfwTerminate"
    /\ glfwTerminate
    /\ Return(0)
    /\ UNCHANGED <<closeQueued, closeFlag, visibleAt, presents, polls, frame, failed,
                   leftLoop>>
    /\ UNCHANGED glVars

\* The user asks the window to close (title-bar button, Alt-F4): the request
\* waits in the OS queue for the next glfwPollEvents.  The model follows the
\* user only while main will still poll within MaxFrames.
CloseRequest ==
    /\ window # NULL
    /\ ~closeQueued
    /\ ~closeFlag
    /\ pc \in {"glfwMakeContextCurrent", "glewInit", "glfwWindowShouldClose",
               "glfwSwapBuffers", "glfwPollEvents"}
    /\ ~(pc = "glfwWindowShouldClose" /\ presents >= MaxFrames)
    /\ closeQueued' = TRUE
    /\ UNCHANGED <<pc, glfwInitialized, window, contextCurrent, closeFlag, visibleAt,
                   presents, polls, terminateCalls, frame, failed, leftLoop, retval>>
    /\ UNCHANGED glVars


MainStep ==
    \/ glfwInit
    \/ glfwCreateWindow
    \/ glfwMakeContextCurrent
    \/ glewInit
    \/ glfwWindowShouldClose
    \/ glfwSwapBuffers
    \/ glfwPollEvents
    \/ Cleanup

\* ======================================================= src/triangle.cpp

\* The info log a failed compile or link leaves is modelled by its length:
\* empty, one that just fits infoLog with its terminator, and one that does
\* not.  The log of a successful step is never fetched and is left empty.
LogLengths == {0, InfoLogSize - 1, InfoLogSize - 1 + MaxLogExcess}

Min(a, b) == IF a < b THEN a ELSE b

\* glGetShaderInfoLog / glGetProgramInfoLog(obj, 512, NULL, infoLog): at most
\* bufSize - 1 characters of the log and a terminating NUL are written.
InfoLogFetched(n) == Min(n, InfoLogSize - 1)

\* A shader or program object as glCreateShader / glCreateProgram returns it.
NewObject(k) ==
    [kind |-> k, source |-> FALSE, compiled |-> FALSE, linked |-> FALSE,
     attached |-> {}, logLen |-> 0, deleteFlag |-> FALSE]

\* Attribute 0 of a fresh vertex array object.
FreshAttrib == [enabled |-> FALSE, size |-> 4, stride |-> 0, offset |-> 0, buffer |-> 0]

\* Locals of renderTriangleSetup before their first assignment (-1: not set).
FreshLocals == [VBO |-> -1, vertexShader |-> -1, fragmentShader |-> -1, success |-> -1,
                infoLog |-> -1]

\* One entry of glCalls: the call's source line, name and handle argument,
\* and the vertex-array and array-buffer bindings it was issued under.
Call(line, fn, arg) ==
    [line |-> line, fn |-> fn, arg |-> arg, vao |-> vaoBinding, buf |-> arrayBuffer]

\* The control part of one GL call: from position `from` to position `to`.
\* A function is entered from "idle", which starts a new call log.
Step(from, to, line, fn, arg) ==
    /\ tpc = from
    /\ tpc' = to
    /\ glCalls' = IF from = "idle" THEN <<Call(line, fn, arg)>>
                  ELSE Append(glCalls, Call(line, fn, arg))
    /\ UNCHANGED profile
    /\ UNCHANGED mainVars

\* glBufferData(GL_ARRAY_BUFFER, sizeof(vertices), vertices, GL_STATIC_DRAW)
BufferData ==
    IF arrayBuffer # 0
    THEN /\ bufs' = [bufs EXCEPT ![arrayBuffer] = VerticesBytes]
         /\ UNCHANGED glError
    ELSE /\ glError' = TRUE
         /\ UNCHANGED bufs

\* The attribute-0 state glVertexAttribPointer(0, 3, GL_FLOAT, GL_FALSE,
\* 3 * sizeof(float), (void*)0) writes: the layout and the bound array buffer.
Pointed(a) ==
    [a EXCEPT !.size = 3, !.stride = 3 * SizeofFloat, !.offset = 0, !.buffer = arrayBuffer]

\* Attribute 0 of the bound vertex array.
BoundAttrib == IF vaoBinding # 0 THEN vaos[vaoBinding] ELSE defaultVao

\* A write of state `a` to attribute 0 of the bound vertex array.  With no
\* vertex array object bound the compatibility profile writes to vertex array
\* 0 and the core profile raises GL_INVALID_OPERATION.
WriteAttrib(a) ==
    IF vaoBinding # 0
    THEN /\ vaos' = [vaos EXCEPT ![vaoBinding] = a]
         /\ UNCHANGED <<defaultVao, glError>>
    ELSE IF profile = "compat"
    THEN /\ defaultVao' = a
         /\ UNCHANGED <<vaos, glError>>
    ELSE /\ glError' = TRUE
         /\ UNCHANGED <<vaos, defaultVao>>

EnabledAttrib(a) == [a EXCEPT !.enabled = TRUE]

\* glUseProgram(p): 0 and a linked program become current; a program that is
\* not linked raises GL_INVALID_OPERATION and leaves the current one.
UseProgram(p) ==
    IF p = 0 \/ objs[p].linked
    THEN /\ currentProgram' = p
         /\ UNCHANGED glError
    ELSE /\ glError' = TRUE
         /\ UNCHANGED currentProgram

\* DiagStream with a fault injected: the blocks go to std::cerr.
DiagStreamErr == "stderr"

\* The stream of `std::cout << ...`.
DiagStream == "stdout"

\* std::cout << header << infoLog << std::endl: one block, the header line and
\* the fetched log.
CoutBlock(header) ==
    LET block == [header |-> header, log |-> loc.infoLog]
    IN  IF DiagStream = "stdout"
        THEN /\ out' = Append(out, block)
             /\ UNCHANGED err
        ELSE /\ err' = Append(err, block)
             /\ UNCHANGED out


\* A statement of renderTriangleSetup that is no GL call.
Local(from, to) ==
    /\ tpc = from
    /\ tpc' = to
    /\ UNCHANGED <<glCalls, profile>>
    /\ UNCHANGED mainVars

\* The outcomes glLinkProgram can have: a program with an attached shader that
\* is not compiled does not link.
LinkOutcomes(p) ==
    IF \A s \in objs[p].attached : objs[s].compiled THEN BOOLEAN ELSE {FALSE}

\* renderTriangleSetup() is entered.
\* unsigned int VBO; glGenBuffers(1, &VBO);                   triangle.cpp:62-63
glGenBuffers_L63 ==
    /\ Step("idle", "L69", 63, "glGenBuffers", Len(bufs) + 1)
    /\ setups < MaxSetups
    /\ setups' = setups + 1
    /\ bufs' = Append(bufs, 0)
    /\ loc' = [FreshLocals EXCEPT !.VBO = Len(bufs) + 1]
    /\ UNCHANGED <<shaderProgram, VAO, arrayBuffer, objs, currentProgram, vaos,
                   defaultVao, vaoBinding, glError, out, err, draws, setupsDone>>

\* glBindBuffer(GL_ARRAY_BUFFER, VBO);                          triangle.cpp:69
glBindBuffer_L69 ==
    /\ Step("L69", "L78", 69, "glBindBuffer", loc.VBO)
    /\ arrayBuffer' = loc.VBO
    /\ UNCHANGED <<shaderProgram, VAO, loc, bufs, objs, currentProgram, vaos,
                   defaultVao, vaoBinding, glError, out, err, draws, setups,
                   setupsDone>>

\* glBufferData(GL_ARRAY_BUFFER, sizeof(vertices), ...);         triangle.cpp:78
glBufferData_L78 ==
    /\ Step("L78", "L85", 78, "glBufferData", arrayBuffer)
    /\ BufferData
    /\ UNCHANGED <<shaderProgram, VAO, loc, arrayBuffer, objs, currentProgram, vaos,
                   defaultVao, vaoBinding, out, err, draws, setups, setupsDone>>

\* vertexShader = glCreateShader(GL_VERTEX_SHADER);           triangle.cpp:85
glCreateShader_L85 ==
    /\ Step("L85", "L90", 85, "glCreateShader", Len(objs) + 1)
    /\ objs' = Append(objs, NewObject("vertex"))
    /\ loc' = [loc EXCEPT !.vertexShader = Len(objs) + 1]
    /\ UNCHANGED <<shaderProgram, VAO, bufs, arrayBuffer, currentProgram, vaos,
                   defaultVao, vaoBinding, glError, out, err, draws, setups,
                   setupsDone>>

\* glShaderSource(vertexShader, 1, &vertexShaderSource, NULL);   triangle.cpp:90
glShaderSource_L90 ==
    /\ Step("L90", "L91", 90, "glShaderSource", loc.vertexShader)
    /\ objs' = [objs EXCEPT ![loc.vertexShader].source = TRUE]
    /\ UNCHANGED <<shaderProgram, VAO, loc, bufs, arrayBuffer, currentProgram, vaos,
                   defaultVao, vaoBinding, glError, out, err, draws, setups,
                   setupsDone>>

\* glCompileShader(vertexShader): the driver accepts or rejects the source and
\* leaves an info log.                                         triangle.cpp:91
glCompileShader_L91 ==
    /\ Step("L91", "L98", 91, "glCompileShader", loc.vertexShader)
    /\ \E ok \in BOOLEAN, n \in LogLengths :
          objs' = [objs EXCEPT ![loc.vertexShader].compiled = ok,
                               ![loc.vertexShader].logLen = IF ok THEN 0 ELSE n]
    /\ UNCHANGED <<shaderProgram, VAO, loc, bufs, arrayBuffer, currentProgram, vaos,
                   defaultVao, vaoBinding, glError, out, err, draws, setups,
                   setupsDone>>

\* glGetShaderiv(vertexShader, GL_COMPILE_STATUS, &success);
\* if(!success) { ... }                                    triangle.cpp:98-101
glGetShaderiv_L98 ==
    /\ Step("L98", IF objs[loc.vertexShader].compiled THEN "L118" ELSE "L104", 98,
            "glGetShaderiv", loc.vertexShader)
    /\ loc' = [loc EXCEPT !.success = IF objs[loc.vertexShader].compiled THEN 1 ELSE 0]
    /\ UNCHANGED <<shaderProgram, VAO, bufs, arrayBuffer, objs, currentProgram, vaos,
                   defaultVao, vaoBinding, glError, out, err, draws, setups,
                   setupsDone>>

\* char infoLog[512]; glGetShaderInfoLog(vertexShader, 512, NULL, infoLog);
\*                                                             triangle.cpp:103-104
glGetShaderInfoLog_L104 ==
    /\ Step("L104", "L105", 104, "glGetShaderInfoLog", loc.vertexShader)
    /\ loc' = [loc EXCEPT !.infoLog = InfoLogFetched(objs[loc.vertexShader].logLen)]
    /\ UNCHANGED <<shaderProgram, VAO, bufs, arrayBuffer, objs, currentProgram, vaos,
                   defaultVao, vaoBinding, glError, out, err, draws, setups,
                   setupsDone>>

\* cout_L105 with a fault injected: setup returns after reporting the vertex
\* failure.
cout_L105_Return ==
    /\ Local("L105", "idle")
    /\ CoutBlock("ERROR::SHADER::VERTEX::COMPILATION_FAILED")
    /\ UNCHANGED <<shaderProgram, VAO, loc, bufs, arrayBuffer, objs, currentProgram,
                   vaos, defaultVao, vaoBinding, glError, draws, setups>>
    /\ setupsDone' = setupsDone + 1

\* std::cout << "ERROR::SHADER::VERTEX::COMPILATION_FAILED\n" << infoLog
\*           << std::endl;                                 triangle.cpp:105-106
cout_L105 ==
    /\ Local("L105", "L118")
    /\ CoutBlock("ERROR::SHADER::VERTEX::COMPILATION_FAILED")
    /\ UNCHANGED <<shaderProgram, VAO, loc, bufs, arrayBuffer, objs, currentProgram,
                   vaos, defaultVao, vaoBinding, glError, draws, setups, setupsDone>>

\* fragmentShader = glCreateShader(GL_FRAGMENT_SHADER);       triangle.cpp:118
glCreateShader_L118 ==
    /\ Step("L118", "L119", 118, "glCreateShader", Len(objs) + 1)
    /\ objs' = Append(objs, NewObject("fragment"))
    /\ loc' = [loc EXCEPT !.fragmentShader = Len(objs) + 1]
    /\ UNCHANGED <<shaderProgram, VAO, bufs, arrayBuffer, currentProgram, vaos,
                   defaultVao, vaoBinding, glError, out, err, draws, setups,
                   setupsDone>>

\* glShaderSource(fragmentShader, 1, &fragmentShaderSource, NULL);   triangle.cpp:119
glShaderSource_L119 ==
    /\ Step("L119", "L120", 119, "glShaderSource", loc.fragmentShader)
    /\ objs' = [objs EXCEPT ![loc.fragmentShader].source = TRUE]
    /\ UNCHANGED <<shaderProgram, VAO, loc, bufs, arrayBuffer, currentProgram, vaos,
                   defaultVao, vaoBinding, glError, out, err, draws, setups,
                   setupsDone>>

\* glCompileShader(fragmentShader): the driver accepts or rejects the source and
\* leaves an info log.                                         triangle.cpp:120
glCompileShader_L120 ==
    /\ Step("L120", "L122", 120, "glCompileShader", loc.fragmentShader)
    /\ \E ok \in BOOLEAN, n \in LogLengths :
          objs' = [objs EXCEPT ![loc.fragmentShader].compiled = ok,
                               ![loc.fragmentShader].logLen = IF ok THEN 0 ELSE n]
    /\ UNCHANGED <<shaderProgram, VAO, loc, bufs, arrayBuffer, currentProgram, vaos,
                   defaultVao, vaoBinding, glError, out, err, draws, setups,
                   setupsDone>>

\* glGetShaderiv(fragmentShader, GL_COMPILE_STATUS, &success);
\* if(!success) { ... }                                    triangle.cpp:122-123
glGetShaderiv_L122 ==
    /\ Step("L122", IF objs[loc.fragmentShader].compiled THEN "L143" ELSE "L126", 122,
            "glGetShaderiv", loc.fragmentShader)
    /\ loc' = [loc EXCEPT !.success = IF objs[loc.fragmentShader].compiled THEN 1 ELSE 0]
    /\ UNCHANGED <<shaderProgram, VAO, bufs, arrayBuffer, objs, currentProgram, vaos,
                   defaultVao, vaoBinding, glError, out, err, draws, setups,
                   setupsDone>>

\* char infoLog[512]; glGetShaderInfoLog(fragmentShader, 512, NULL, infoLog);
\*                                                             triangle.cpp:125-126
glGetShaderInfoLog_L126 ==
    /\ Step("L126", "L127", 126, "glGetShaderInfoLog", loc.fragmentShader)
    /\ loc' = [loc EXCEPT !.infoLog = InfoLogFetched(objs[loc.fragmentShader].logLen)]
    /\ UNCHANGED <<shaderProgram, VAO, bufs, arrayBuffer, objs, currentProgram, vaos,
                   defaultVao, vaoBinding, glError, out, err, draws, setups,
                   setupsDone>>

\* cout_L127 with a fault injected: the fragment failure is reported under the
\* vertex header.
cout_L127_VertexHeader ==
    /\ Local("L127", "L143")
    /\ CoutBlock("ERROR::SHADER::VERTEX::COMPILATION_FAILED")
    /\ UNCHANGED <<shaderProgram, VAO, loc, bufs, arrayBuffer, objs, currentProgram,
                   vaos, defaultVao, vaoBinding, glError, draws, setups, setupsDone>>

\* std::cout << "ERROR::SHADER::FRAGMENT::COMPILATION_FAILED\n" << infoLog
\*           << std::endl;                                 triangle.cpp:127-128
cout_L127 ==
    /\ Local("L127", "L143")
    /\ CoutBlock("ERROR::SHADER::FRAGMENT::COMPILATION_FAILED")
    /\ UNCHANGED <<shaderProgram, VAO, loc, bufs, arrayBuffer, objs, currentProgram,
                   vaos, defaultVao, vaoBinding, glError, draws, setups, setupsDone>>

\* shaderProgram = glCreateProgram();                           triangle.cpp:143
glCreateProgram_L143 ==
    /\ Step("L143", "L146", 143, "glCreateProgram", Len(objs) + 1)
    /\ objs' = Append(objs, NewObject("program"))
    /\ shaderProgram' = Len(objs) + 1
    /\ UNCHANGED <<VAO, loc, bufs, arrayBuffer, currentProgram, vaos, defaultVao,
                   vaoBinding, glError, out, err, draws, setups, setupsDone>>

\* glAttachShader(shaderProgram, vertexShader);                 triangle.cpp:146
glAttachShader_L146 ==
    /\ Step("L146", "L147", 146, "glAttachShader", loc.vertexShader)
    /\ objs' = [objs EXCEPT ![shaderProgram].attached = @ \cup {loc.vertexShader}]
    /\ UNCHANGED <<shaderProgram, VAO, loc, bufs, arrayBuffer, currentProgram, vaos,
                   defaultVao, vaoBinding, glError, out, err, draws, setups,
                   setupsDone>>

\* glAttachShader(shaderProgram, fragmentShader);               triangle.cpp:147
glAttachShader_L147 ==
    /\ Step("L147", "L148", 147, "glAttachShader", loc.fragmentShader)
    /\ objs' = [objs EXCEPT ![shaderProgram].attached = @ \cup {loc.fragmentShader}]
    /\ UNCHANGED <<shaderProgram, VAO, loc, bufs, arrayBuffer, currentProgram, vaos,
                   defaultVao, vaoBinding, glError, out, err, draws, setups,
                   setupsDone>>

\* glLinkProgram(shaderProgram): linking fails when an attached shader is
\* not compiled, and may fail otherwise.                      triangle.cpp:148
glLinkProgram_L148 ==
    /\ Step("L148", "L151", 148, "glLinkProgram", shaderProgram)
    /\ \E ok \in LinkOutcomes(shaderProgram), n \in LogLengths :
          objs' = [objs EXCEPT ![shaderProgram].linked = ok,
                               ![shaderProgram].logLen = IF ok THEN 0 ELSE n]
    /\ UNCHANGED <<shaderProgram, VAO, loc, bufs, arrayBuffer, currentProgram, vaos,
                   defaultVao, vaoBinding, glError, out, err, draws, setups,
                   setupsDone>>

\* glGetProgramiv(shaderProgram, GL_LINK_STATUS, &success);
\* if(!success){ ... }                                    triangle.cpp:151-152
glGetProgramiv_L151 ==
    /\ Step("L151", IF objs[shaderProgram].linked THEN "L163" ELSE "L155", 151,
            "glGetProgramiv", shaderProgram)
    /\ loc' = [loc EXCEPT !.success = IF objs[shaderProgram].linked THEN 1 ELSE 0]
    /\ UNCHANGED <<shaderProgram, VAO, bufs, arrayBuffer, objs, currentProgram, vaos,
                   defaultVao, vaoBinding, glError, out, err, draws, setups,
                   setupsDone>>

\* char infoLog[512]; glGetProgramInfoLog(shaderProgram, 512, NULL, infoLog);
\*                                                        triangle.cpp:154-155
glGetProgramInfoLog_L155 ==
    /\ Step("L155", "L156", 155, "glGetProgramInfoLog", shaderProgram)
    /\ loc' = [loc EXCEPT !.infoLog = InfoLogFetched(objs[shaderProgram].logLen)]
    /\ UNCHANGED <<shaderProgram, VAO, bufs, arrayBuffer, objs, currentProgram, vaos,
                   defaultVao, vaoBinding, glError, out, err, draws, setups,
                   setupsDone>>

\* std::cout << "ERROR::SHADER::PROGRAM::LINKING_FAILED\n" << infoLog
\*           << std::endl;                                triangle.cpp:156-157
cout_L156 ==
    /\ Local("L156", "L163")
    /\ CoutBlock("ERROR::SHADER::PROGRAM::LINKING_FAILED")
    /\ UNCHANGED <<shaderProgram, VAO, loc, bufs, arrayBuffer, objs, currentProgram,
                   vaos, defaultVao, vaoBinding, glError, draws, setups, setupsDone>>

\* glUseProgram(shaderProgram);                                triangle.cpp:163
glUseProgram_L163 ==
    /\ Step("L163", "L167", 163, "glUseProgram", shaderProgram)
    /\ UseProgram(shaderProgram)
    /\ UNCHANGED <<shaderProgram, VAO, loc, bufs, arrayBuffer, objs, vaos, defaultVao,
                   vaoBinding, out, err, draws, setups, setupsDone>>

\* glDeleteShader(vertexShader): an attached shader is flagged for deletion.
\*                                                             triangle.cpp:167
glDeleteShader_L167 ==
    /\ Step("L167", "L168", 167, "glDeleteShader", loc.vertexShader)
    /\ objs' = [objs EXCEPT ![loc.vertexShader].deleteFlag = TRUE]
    /\ UNCHANGED <<shaderProgram, VAO, loc, bufs, arrayBuffer, currentProgram, vaos,
                   defaultVao, vaoBinding, glError, out, err, draws, setups,
                   setupsDone>>

\* glDeleteShader_L168 with a fault injected: the vertex shader is deleted a
\* second time and the fragment shader never.
glDeleteShader_L168_Vertex ==
    /\ Step("L168", "L199", 168, "glDeleteShader", loc.vertexShader)
    /\ objs' = [objs EXCEPT ![loc.vertexShader].deleteFlag = TRUE]
    /\ UNCHANGED <<shaderProgram, VAO, loc, bufs, arrayBuffer, currentProgram, vaos,
                   defaultVao, vaoBinding, glError, out, err, draws, setups,
                   setupsDone>>

\* glDeleteShader(fragmentShader);                             triangle.cpp:168
glDeleteShader_L168 ==
    /\ Step("L168", "L199", 168, "glDeleteShader", loc.fragmentShader)
    /\ objs' = [objs EXCEPT ![loc.fragmentShader].deleteFlag = TRUE]
    /\ UNCHANGED <<shaderProgram, VAO, loc, bufs, arrayBuffer, currentProgram, vaos,
                   defaultVao, vaoBinding, glError, out, err, draws, setups,
                   setupsDone>>

\* glVertexAttribPointer(0, 3, GL_FLOAT, GL_FALSE, 3 * sizeof(float), (void*)0);
\*                                                             triangle.cpp:199
glVertexAttribPointer_L199 ==
    /\ Step("L199", "L200", 199, "glVertexAttribPointer", 0)
    /\ WriteAttrib(Pointed(BoundAttrib))
    /\ UNCHANGED <<shaderProgram, VAO, loc, bufs, arrayBuffer, objs, currentProgram,
                   vaoBinding, out, err, draws, setups, setupsDone>>

\* glEnableVertexAttribArray(0);                               triangle.cpp:200
glEnableVertexAttribArray_L200 ==
    /\ Step("L200", "L203", 200, "glEnableVertexAttribArray", 0)
    /\ WriteAttrib(EnabledAttrib(BoundAttrib))
    /\ UNCHANGED <<shaderProgram, VAO, loc, bufs, arrayBuffer, objs, currentProgram,
                   vaoBinding, out, err, draws, setups, setupsDone>>

\* glGenVertexArrays(1, &VAO);                                 triangle.cpp:203
glGenVertexArrays_L203 ==
    /\ Step("L203", "L204", 203, "glGenVertexArrays", Len(vaos) + 1)
    /\ vaos' = Append(vaos, FreshAttrib)
    /\ VAO' = Len(vaos) + 1
    /\ UNCHANGED <<shaderProgram, loc, bufs, arrayBuffer, objs, currentProgram,
                   defaultVao, vaoBinding, glError, out, err, draws, setups,
                   setupsDone>>

\* glBindVertexArray_L204 with a fault injected: the new vertex array is not
\* bound.
glBindVertexArray_L204_Skipped ==
    /\ Step("L204", "L206", 204, "glBindVertexArray", VAO)
    /\ vaoBinding' = vaoBinding
    /\ UNCHANGED <<shaderProgram, VAO, loc, bufs, arrayBuffer, objs, currentProgram,
                   vaos, defaultVao, glError, out, err, draws, setups, setupsDone>>

\* glBindVertexArray(VAO);                                     triangle.cpp:204
glBindVertexArray_L204 ==
    /\ Step("L204", "L206", 204, "glBindVertexArray", VAO)
    /\ vaoBinding' = VAO
    /\ UNCHANGED <<shaderProgram, VAO, loc, bufs, arrayBuffer, objs, currentProgram,
                   vaos, defaultVao, glError, out, err, draws, setups, setupsDone>>

\* glBindBuffer(GL_ARRAY_BUFFER, VBO);                         triangle.cpp:206
glBindBuffer_L206 ==
    /\ Step("L206", "L207", 206, "glBindBuffer", loc.VBO)
    /\ arrayBuffer' = loc.VBO
    /\ UNCHANGED <<shaderProgram, VAO, loc, bufs, objs, currentProgram, vaos,
                   defaultVao, vaoBinding, glError, out, err, draws, setups,
                   setupsDone>>

\* glBufferData(GL_ARRAY_BUFFER, sizeof(vertices), ...);        triangle.cpp:207
glBufferData_L207 ==
    /\ Step("L207", "L209", 207, "glBufferData", arrayBuffer)
    /\ BufferData
    /\ UNCHANGED <<shaderProgram, VAO, loc, arrayBuffer, objs, currentProgram, vaos,
                   defaultVao, vaoBinding, out, err, draws, setups, setupsDone>>

\* glVertexAttribPointer(0, 3, GL_FLOAT, GL_FALSE, 3 * sizeof(float), (void*)0);
\*                                                             triangle.cpp:209
glVertexAttribPointer_L209 ==
    /\ Step("L209", "L210", 209, "glVertexAttribPointer", 0)
    /\ WriteAttrib(Pointed(BoundAttrib))
    /\ UNCHANGED <<shaderProgram, VAO, loc, bufs, arrayBuffer, objs, currentProgram,
                   vaoBinding, out, err, draws, setups, setupsDone>>

\* glEnableVertexAttribArray(0);                               triangle.cpp:210
glEnableVertexAttribArray_L210 ==
    /\ Step("L210", "L213", 210, "glEnableVertexAttribArray", 0)
    /\ WriteAttrib(EnabledAttrib(BoundAttrib))
    /\ UNCHANGED <<shaderProgram, VAO, loc, bufs, arrayBuffer, objs, currentProgram,
                   vaoBinding, out, err, draws, setups, setupsDone>>

\* glBindBuffer(GL_ARRAY_BUFFER, 0);                           triangle.cpp:213
glBindBuffer_L213 ==
    /\ Step("L213", "L217", 213, "glBindBuffer", 0)
    /\ arrayBuffer' = 0
    /\ UNCHANGED <<shaderProgram, VAO, loc, bufs, objs, currentProgram, vaos,
                   defaultVao, vaoBinding, glError, out, err, draws, setups,
                   setupsDone>>

\* glBindVertexArray(0); renderTriangleSetup() returns.   triangle.cpp:217-218
glBindVertexArray_L217 ==
    /\ Step("L217", "idle", 217, "glBindVertexArray", 0)
    /\ vaoBinding' = 0
    /\ setupsDone' = setupsDone + 1
    /\ UNCHANGED <<shaderProgram, VAO, loc, bufs, arrayBuffer, objs, currentProgram,
                   vaos, defaultVao, glError, out, err, draws, setups>>

\* renderTriangle() is entered.
\* glUseProgram(shaderProgram);                                triangle.cpp:222
glUseProgram_L222 ==
    /\ Step("idle", "L223", 222, "glUseProgram", shaderProgram)
    /\ draws < MaxRenders
    /\ UseProgram(shaderProgram)
    /\ UNCHANGED <<shaderProgram, VAO, loc, bufs, arrayBuffer, objs, vaos, defaultVao,
                   vaoBinding, out, err, draws, setups, setupsDone>>

\* glBindVertexArray(VAO);                                     triangle.cpp:223
glBindVertexArray_L223 ==
    /\ Step("L223", "L224", 223, "glBindVertexArray", VAO)
    /\ vaoBinding' = VAO
    /\ UNCHANGED <<shaderProgram, VAO, loc, bufs, arrayBuffer, objs, currentProgram,
                   vaos, defaultVao, glError, out, err, draws, setups, setupsDone>>

\* glDrawArrays(GL_TRIANGLES, 0, 3); renderTriangle() returns.  The core
\* profile has no vertex array 0 to draw from.             triangle.cpp:224-225
glDrawArrays_L224 ==
    /\ Step("L224", "idle", 224, "glDrawArrays", DrawCount)
    /\ draws' = draws + 1
    /\ glError' = (glError \/ (profile = "core" /\ vaoBinding = 0))
    /\ UNCHANGED <<shaderProgram, VAO, loc, bufs, arrayBuffer, objs, currentProgram,
                   vaos, defaultVao, vaoBinding, out, err, setups, setupsDone>>

renderTriangleSetup ==
    \/ glGenBuffers_L63
    \/ glBindBuffer_L69
    \/ glBufferData_L78
    \/ glCreateShader_L85
    \/ glShaderSource_L90
    \/ glCompileShader_L91
    \/ glGetShaderiv_L98
    \/ glGetShaderInfoLog_L104
    \/ cout_L105
    \/ glCreateShader_L118
    \/ glShaderSource_L119
    \/ glCompileShader_L120
    \/ glGetShaderiv_L122
    \/ glGetShaderInfoLog_L126
    \/ cout_L127
    \/ glCreateProgram_L143
    \/ glAttachShader_L146
    \/ glAttachShader_L147
    \/ glLinkProgram_L148
    \/ glGetProgramiv_L151
    \/ glGetProgramInfoLog_L155
    \/ cout_L156
    \/ glUseProgram_L163
    \/ glDeleteShader_L167
    \/ glDeleteShader_L168
    \/ glVertexAttribPointer_L199
    \/ glEnableVertexAttribArray_L200
    \/ glGenVertexArrays_L203
    \/ glBindVertexArray_L204
    \/ glBindBuffer_L206
    \/ glBufferData_L207
    \/ glVertexAttribPointer_L209
    \/ glEnableVertexAttribArray_L210
    \/ glBindBuffer_L213
    \/ glBindVertexArray_L217

renderTriangle ==
    \/ glUseProgram_L222
    \/ glBindVertexArray_L223
    \/ glDrawArrays_L224

\* ========================================================= specifications

\* Statics of triangle.cpp are zero-initialised; no GL object exists.
InitGL ==
    /\ tpc = "idle"
    /\ shaderProgram = 0
    /\ VAO = 0
    /\ loc = FreshLocals
    /\ profile \in {"core", "compat"}
    /\ bufs = <<>>
    /\ arrayBuffer = 0
    /\ objs = <<>>
    /\ currentProgram = 0
    /\ vaos = <<>>
    /\ defaultVao = FreshAttrib
    /\ vaoBinding = 0
    /\ glError = FALSE
    /\ glCalls = <<>>
    /\ out = <<>>
    /\ err = <<>>
    /\ draws = 0
    /\ setups = 0
    /\ setupsDone = 0

\* The state main() starts in.
Init ==
    /\ pc = "glfwInit"
    /\ glfwInitialized = FALSE
    /\ window = NULL
    /\ contextCurrent = FALSE
    /\ closeQueued = FALSE
    /\ closeFlag = FALSE
    /\ visibleAt = 0
    /\ presents = 0
    /\ polls = 0
    /\ terminateCalls = 0
    /\ frame = <<>>
    /\ failed = "none"
    /\ leftLoop = FALSE
    /\ retval = <<>>
    /\ InitGL

Next ==
    \/ MainStep
    \/ CloseRequest

Spec == Init /\ [][Next]_vars

\* Every call main makes returns, so main's next step is always taken.
FairSpec == Init /\ [][Next]_vars /\ WF_vars(MainStep)

\* A thread on which a window exists and its context is current: what
\* main.cpp:7-24 establishes, and what every GL call of triangle.cpp needs.
InitTriangle ==
    /\ pc = "glfwWindowShouldClose"
    /\ glfwInitialized = TRUE
    /\ window = WindowHandle
    /\ contextCurrent = TRUE
    /\ closeQueued = FALSE
    /\ closeFlag = FALSE
    /\ visibleAt = 0
    /\ presents = 0
    /\ polls = 0
    /\ terminateCalls = 0
    /\ frame = <<>>
    /\ failed = "none"
    /\ leftLoop = FALSE
    /\ retval = <<>>
    /\ InitGL

NextTriangle ==
    \/ renderTriangleSetup
    \/ renderTriangle

TriangleSpec == InitTriangle /\ [][NextTriangle]_vars

\* ================================================================ claims
\* ---- claims about main(), checked under Spec / FairSpec

SetupCalls == {"glfwInit", "glfwCreateWindow", "glewInit"}

\* C1: main's exit status is 0 exactly on the runs that leave the frame loop
\* because glfwWindowShouldClose returned true, and non-zero exactly on the
\* runs where glfwInit, glfwCreateWindow or glewInit failed; there is no other
\* way to exit.
C1_ExitCodes ==
    pc = "exited" =>
        \/ /\ leftLoop
           /\ failed = "none"
           /\ ExitStatus(retval[1]) = 0
        \/ /\ ~leftLoop
           /\ failed \in SetupCalls
           /\ ExitStatus(retval[1]) # 0

\* main has returned -1 (exit status 255) because glewInit failed.
C1_Witness ==
    /\ pc = "exited"
    /\ failed = "glewInit"
    /\ retval = <<-1>>
    /\ ExitStatus(retval[1]) = 255

\* C2: a failed setup call ends the process in the very step that detects it:
\* no frame is presented and no events are polled, before or after, and
\* glfwTerminate has run exactly once unless it was glfwInit itself that
\* failed, so that no window, context or initialised library is left behind.
C2_FatalSetupFailure ==
    failed # "none" =>
        /\ pc = "exited"
        /\ presents = 0
        /\ polls = 0
        /\ frame = <<>>
        /\ ~leftLoop
        /\ terminateCalls = (IF failed = "glfwInit" THEN 0 ELSE 1)
        /\ ~glfwInitialized
        /\ window = NULL
        /\ ~contextCurrent

\* glewInit failed while a close request was pending, and main released GLFW
\* once and returned.
C2_Witness ==
    /\ failed = "glewInit"
    /\ pc = "exited"
    /\ terminateCalls = 1
    /\ closeQueued

\* The frame one loop iteration would have to issue.
DrawnFrame ==
    <<"glUseProgram", "glBindVertexArray", "glDrawArrays", "glfwSwapBuffers",
      "glfwPollEvents">>

\* C3: every iteration of the frame loop activates the program, binds the
\* vertex array, issues one 3-vertex triangle draw, presents and polls, in
\* this order and once each: one draw call has been issued per presented
\* frame.
C3_FrameDrawsOnce ==
    /\ (pc = "glfwPollEvents" => draws = presents)
    /\ (pc = "glfwWindowShouldClose" /\ polls > 0 =>
           /\ frame = DrawnFrame
           /\ draws = presents)

Programs == {i \in DOMAIN objs : objs[i].kind = "program"}

\* C4: setup has run exactly once before the first loop iteration: in every
\* state of the frame loop exactly one program and one vertex array exist and
\* are held by shaderProgram and VAO, and no draw was issued before setup was
\* complete.
C4_SetupBeforeLoop ==
    /\ (pc \in {"glfwWindowShouldClose", "glfwSwapBuffers", "glfwPollEvents"} =>
           /\ setups = 1
           /\ setupsDone = 1
           /\ Cardinality(Programs) = 1
           /\ Len(vaos) = 1
           /\ shaderProgram \in Programs
           /\ VAO = 1)
    /\ (draws > 0 => setupsDone > 0)

\* C9, the loop-head step: the loop is left exactly when the flag is seen
\* raised, and a new iteration starts otherwise.
C9_LoopHead ==
    pc = "glfwWindowShouldClose" /\ pc' # pc =>
        IF closeFlag
        THEN pc' = "glfwTerminate" /\ leftLoop'
        ELSE pc' = "glfwSwapBuffers" /\ ~leftLoop'

\* C9, after the loop: nothing is presented or polled any more.
C9_Terminated ==
    leftLoop => presents' = presents /\ polls' = polls /\ leftLoop'

\* C9, the states: Running is the three positions of the loop, with as many
\* polls as presents at the loop head; once the loop is left the close signal
\* that became visible during poll k was observed after exactly k complete
\* present+poll cycles, k >= 1, and on exit GLFW was released exactly once.
C9_States ==
    /\ (pc = "glfwWindowShouldClose" => polls = presents)
    /\ (pc = "glfwPollEvents" => presents = polls + 1)
    /\ (closeFlag => visibleAt >= 1)
    /\ (leftLoop =>
           /\ pc \in {"glfwTerminate", "exited"}
           /\ visibleAt >= 1
           /\ presents = visibleAt
           /\ polls = visibleAt)
    /\ (pc = "exited" /\ leftLoop =>
           /\ terminateCalls = 1
           /\ window = NULL
           /\ ~glfwInitialized)

\* C9: the frame loop is Running until the first loop-head check that sees the
\* close flag and Terminated from then on; a close signal delivered by the
\* k-th pollEvents is observed after k complete cycles; termination releases
\* GLFW once and nothing is presented or polled afterwards; and a close
\* request that has arrived leads to the process exiting.
C9_FrameLoop ==
    /\ []C9_States
    /\ [][C9_LoopHead /\ C9_Terminated]_vars
    /\ (closeQueued ~> pc = "exited")

\* The close request became visible during the third pollEvents and main has
\* exited through the loop head after three frames.
C9_Witness ==
    /\ pc = "exited"
    /\ leftLoop
    /\ visibleAt = 3
    /\ presents = 3
    /\ polls = 3

\* ---- claims about renderTriangleSetup() / renderTriangle(), checked under
\* ---- TriangleSpec

\* The running, or last finished, function call is renderTriangleSetup.
InSetup == glCalls # <<>> /\ glCalls[1].line = 63

\* renderTriangleSetup has just returned.
SetupReturned == InSetup /\ tpc = "idle"

CallLines(s) == [i \in 1..Len(s) |-> s[i].line]

IsPrefix(a, b) == Len(a) <= Len(b) /\ a = SubSeq(b, 1, Len(a))

\* The source lines of the GL calls renderTriangleSetup makes whatever the
\* compile and link outcomes are, in order.
SetupBody ==
    <<63, 69, 78, 85, 90, 91, 98, 118, 119, 120, 122, 143, 146, 147, 148, 151, 163,
      167, 168, 199, 200, 203, 204, 206, 207, 209, 210, 213, 217>>

\* The info-log fetches, which only a failure makes.
IsUnconditional(c) == c.line \notin {104, 126, 155}

\* The step an object stands for failed: the compile of a shader, the link of
\* a program.
StepFailed(o) == IF o.kind = "program" THEN ~o.linked ELSE ~o.compiled

\* The index in glCalls of the call made at a source line.
IdxOf(line) == CHOOSE i \in 1..Len(glCalls) : glCalls[i].line = line

\* C5: whichever of the vertex compile, the fragment compile and the link
\* fail, renderTriangleSetup goes on: its calls so far are always a prefix of
\* the full call sequence, it can always take its next step, and when it
\* returns it has made every call, all objects it created are still there and
\* shaderProgram holds the program it created.
C5_FailuresDoNotAbort ==
    /\ (InSetup => IsPrefix(CallLines(SelectSeq(glCalls, IsUnconditional)), SetupBody))
    /\ (InSetup /\ tpc # "idle" => ENABLED renderTriangleSetup)
    /\ (SetupReturned =>
           /\ CallLines(SelectSeq(glCalls, IsUnconditional)) = SetupBody
           /\ setupsDone = setups
           /\ Len(objs) = 3 * setups
           /\ Len(bufs) = setups
           /\ Len(vaos) = setups
           /\ shaderProgram = glCalls[IdxOf(143)].arg
           /\ objs[shaderProgram].kind = "program"
           /\ objs[shaderProgram].attached = {loc.vertexShader, loc.fragmentShader})

\* Setup returned although both compiles and the link failed.
C5_Witness ==
    /\ SetupReturned
    /\ ~objs[loc.vertexShader].compiled
    /\ ~objs[loc.fragmentShader].compiled
    /\ ~objs[shaderProgram].linked
    /\ VAO # 0

HeaderOf(kind) ==
    CASE kind = "vertex" -> "ERROR::SHADER::VERTEX::COMPILATION_FAILED"
      [] kind = "fragment" -> "ERROR::SHADER::FRAGMENT::COMPILATION_FAILED"
      [] kind = "program" -> "ERROR::SHADER::PROGRAM::LINKING_FAILED"

\* The blocks the first n objects call for: one per failed step, in creation
\* order (vertex, fragment, program), each the header and the driver log cut
\* to the 511 characters that fit infoLog.
RECURSIVE ExpectedDiag(_)
ExpectedDiag(n) ==
    IF n = 0
    THEN <<>>
    ELSE ExpectedDiag(n - 1) \o
         (IF StepFailed(objs[n])
          THEN <<[header |-> HeaderOf(objs[n].kind),
                  log |-> IF objs[n].logLen <= 511 THEN objs[n].logLen ELSE 511]>>
          ELSE <<>>)

\* C6: between calls, the diagnostic text written so far is exactly one block
\* per failed step and nothing else, in the order vertex, fragment, link, each
\* block the ERROR::SHADER::<STAGE>::<REASON> line of its step followed by the
\* fetched driver log; with no failure nothing is written.
C6_OneBlockPerFailure ==
    tpc = "idle" => out \o err = ExpectedDiag(Len(objs))

\* All three steps failed and three blocks were written, the vertex block
\* with its log cut from 512 to 511 characters.
C6_Witness ==
    /\ SetupReturned
    /\ Len(out \o err) = 3
    /\ objs[loc.vertexShader].logLen = 512
    /\ (out \o err)[1].log = 511
    /\ (out \o err)[3].header = "ERROR::SHADER::PROGRAM::LINKING_FAILED"

FailedSteps == {i \in DOMAIN objs : StepFailed(objs[i])}

\* C7 as stated: every failure block is on standard error and standard output
\* stays empty.
C7_OnStderr ==
    /\ out = <<>>
    /\ (tpc = "idle" => Len(err) = Cardinality(FailedSteps))

\* C7 as amended: every failure block is on standard output (std::cout) and
\* standard error stays empty.
C7_OnStdout ==
    /\ err = <<>>
    /\ (tpc = "idle" => Len(out) = Cardinality(FailedSteps))

\* The fragment compile and the link failed and both blocks are on std::cout.
C7_Witness ==
    /\ tpc = "idle"
    /\ objs # <<>>
    /\ FailedSteps = {loc.fragmentShader, shaderProgram}
    /\ Len(out) = 2
    /\ out[1].header = "ERROR::SHADER::FRAGMENT::COMPILATION_FAILED"

\* The calls that take the name of a shader or program object.
TakesObject(c) ==
    c.fn \in {"glShaderSource", "glCompileShader", "glGetShaderiv", "glGetShaderInfoLog",
              "glAttachShader", "glDeleteShader", "glLinkProgram", "glGetProgramiv",
              "glGetProgramInfoLog", "glUseProgram"}

DeletesOf(h) ==
    {i \in 1..Len(glCalls) : glCalls[i].fn = "glDeleteShader" /\ glCalls[i].arg = h}

\* Handle h is deleted exactly once, after the link, and is passed to no call
\* afterwards.
ReleasedOnce(h) ==
    /\ Cardinality(DeletesOf(h)) = 1
    /\ objs[h].deleteFlag
    /\ \A d \in DeletesOf(h) :
          /\ IdxOf(148) < d
          /\ \A j \in (d + 1)..Len(glCalls) : ~(TakesObject(glCalls[j]) /\ glCalls[j].arg = h)

\* C8 as stated: each stage handle is deleted exactly once, after
\* glLinkProgram and before the program is activated, because the link
\* succeeded, and is not used afterwards.
C8_ReleasedRightAfterLink ==
    SetupReturned =>
        \A h \in {loc.vertexShader, loc.fragmentShader} :
            /\ ReleasedOnce(h)
            /\ objs[shaderProgram].linked
            /\ \A d \in DeletesOf(h) :
                  \A j \in (IdxOf(148) + 1)..(d - 1) : glCalls[j].fn # "glUseProgram"

\* C8 as amended: each stage handle is deleted exactly once, whether or not
\* the link succeeded, after glLinkProgram, the link-status check and the
\* activation of the program by glUseProgram (vertex handle first), and is
\* passed to no call after its release.
C8_ReleasedAfterUse ==
    /\ (InSetup /\ tpc \in {"L163", "L167"} =>
           \A h \in {loc.vertexShader, loc.fragmentShader} :
               DeletesOf(h) = {} /\ ~objs[h].deleteFlag)
    /\ (SetupReturned =>
           /\ \A h \in {loc.vertexShader, loc.fragmentShader} : ReleasedOnce(h)
           /\ IdxOf(148) < IdxOf(151)
           /\ IdxOf(151) < IdxOf(163)
           /\ IdxOf(163) + 1 = IdxOf(167)
           /\ IdxOf(167) + 1 = IdxOf(168)
           /\ glCalls[IdxOf(167)].arg = loc.vertexShader
           /\ glCalls[IdxOf(168)].arg = loc.fragmentShader)

\* The link failed and both stage handles were released all the same.
C8_Witness ==
    /\ SetupReturned
    /\ objs[loc.vertexShader].compiled
    /\ objs[loc.fragmentShader].compiled
    /\ ~objs[shaderProgram].linked
    /\ objs[loc.vertexShader].deleteFlag
    /\ objs[loc.fragmentShader].deleteFlag

IsLayoutCall(c) == c.fn \in {"glVertexAttribPointer", "glEnableVertexAttribArray"}

\* The vertex array VAO sources slot 0 from the uploaded 9-float buffer: 3
\* components, stride 3 * sizeof(float), offset 0, enabled.
DescriptorCaptured ==
    /\ VAO \in DOMAIN vaos
    /\ vaos[VAO] = [enabled |-> TRUE, size |-> 3, stride |-> 12, offset |-> 0,
                    buffer |-> loc.VBO]
    /\ loc.VBO \in DOMAIN bufs
    /\ bufs[loc.VBO] = 9 * 4

\* C10 as stated: every attribute-layout call of renderTriangleSetup is issued
\* with a vertex array object bound and the uploaded buffer bound.
C10_EveryLayoutCallUnderVao ==
    InSetup =>
        \A i \in 1..Len(glCalls) :
            IsLayoutCall(glCalls[i]) => glCalls[i].vao # 0 /\ glCalls[i].buf = loc.VBO

\* C10, the states: from the return of setup on, between calls and during
\* renderTriangle, VAO holds the captured layout; setup returns with the
\* array buffer and the vertex array unbound; its layout calls at lines 209
\* and 210 were issued with VAO and the uploaded buffer bound, those at lines
\* 199 and 200 with the uploaded buffer bound but before VAO existed.
C10_States ==
    /\ (setupsDone >= 1 /\ tpc \in {"idle", "L223", "L224"} => DescriptorCaptured)
    /\ (SetupReturned =>
           /\ arrayBuffer = 0
           /\ vaoBinding = 0
           /\ \A i \in 1..Len(glCalls) :
                 IsLayoutCall(glCalls[i]) =>
                     /\ glCalls[i].buf = loc.VBO
                     /\ glCalls[i].line \in {209, 210} => glCalls[i].vao = VAO
                     /\ glCalls[i].line \in {199, 200} => glCalls[i].vao # VAO)

\* C10, the steps of renderTriangle: no vertex array, buffer or handle changes.
C10_RenderKeepsLayout ==
    tpc' \in {"L223", "L224"} \/ tpc = "L224" =>
        UNCHANGED <<vaos, defaultVao, bufs, VAO, shaderProgram, loc>>

\* C10 as amended: the attribute-layout calls at lines 209-210 are issued with
\* VAO and the uploaded buffer bound (those at lines 199-200 before VAO
\* exists), so that after setup returns VAO has slot 0 enabled and sourced from
\* the uploaded 9-float buffer with 3 components, stride 12, offset 0; this
\* survives the final unbinding and every later renderTriangle call, which
\* only re-binds the program and VAO.
C10_DescriptorCaptured ==
    /\ []C10_States
    /\ [][C10_RenderKeepsLayout]_vars

\* Two frames were drawn after setup and VAO, still bound, holds the layout.
C10_Witness ==
    /\ tpc = "idle"
    /\ setupsDone = 1
    /\ draws = 2
    /\ vaoBinding = VAO
    /\ DescriptorCaptured

====
